---- MODULE Spec2Model ----
\* Model of src/translate_scenarios.py: GeminiClient.send, Translator._scan_workload
\* and Translator.process (the scan -> per-task dispatch -> parse -> writeback ->
\* incremental save loop).
\*
\* Text is a sequence of one-character strings; a table is a sequence of records,
\* a record a sequence of cells, a cell a text.  A CSV file on disk is represented
\* by the table csv.reader yields for it / csv.writer was given for it.
\* Python's None is the empty sequence Null, a present value v is Some(v) = <<v>>.
EXTENDS Integers, Sequences, FiniteSets, TLC

\* ---------------------------------------------------------------- characters
LB == "["
RB == "]"
CM == ","
QT == "\""
BS == "\\"
SP == " "
LF == "LF"
AP == "'"

\* str.strip() with no argument removes these from both ends; they are also the
\* whitespace json.loads skips between tokens.
Whitespace == {SP, LF}

Null == <<>>
Some(v) == <<v>>

\* ---------------------------------------------------------------- bounds
\* data rows per input table
MaxRows == 3
\* tokens per backend output in the response-parsing specification
MaxRespTokens == 5
\* cells per header in the header-scan specification
MaxHeaderLen == 4
\* pieces per prompt template in the prompt specification
MaxTemplatePieces == 3

\* ---------------------------------------------------------------- text helpers
RECURSIVE StripLeft(_)
StripLeft(s) ==
    IF s # <<>> /\ Head(s) \in Whitespace THEN StripLeft(Tail(s)) ELSE s

RECURSIVE StripRight(_)
StripRight(s) ==
    IF s # <<>> /\ s[Len(s)] \in Whitespace
    THEN StripRight(SubSeq(s, 1, Len(s) - 1))
    ELSE s

\* str.strip()
Strip(s) == StripRight(StripLeft(s))

\* str.find(c): 0-based index of the first occurrence, -1 when absent
Find(s, c) ==
    IF \E i \in 1..Len(s) : s[i] = c
    THEN (CHOOSE i \in 1..Len(s) : s[i] = c /\ \A j \in 1..(i - 1) : s[j] # c) - 1
    ELSE -1

\* str.rfind(c): 0-based index of the last occurrence, -1 when absent
RFind(s, c) ==
    IF \E i \in 1..Len(s) : s[i] = c
    THEN (CHOOSE i \in 1..Len(s) : s[i] = c /\ \A j \in (i + 1)..Len(s) : s[j] # c) - 1
    ELSE -1

\* s[a:b] for 0 <= a, 0 <= b
Slice(s, a, b) == SubSeq(s, a + 1, b)

\* the two-character text '\\n' of the source: a backslash followed by the letter n
EscapedNewline == <<BS, "n">>

\* response.split('\\n')
RECURSIVE SplitFrom(_, _, _)
SplitFrom(s, i, cur) ==
    IF i > Len(s) THEN <<cur>>
    ELSE IF i < Len(s) /\ s[i] = BS /\ s[i + 1] = "n"
         THEN <<cur>> \o SplitFrom(s, i + 2, <<>>)
         ELSE SplitFrom(s, i + 1, Append(cur, s[i]))

SplitEscaped(s) == SplitFrom(s, 1, <<>>)

\* ---------------------------------------------------------------- json.loads
\* json.loads on the characters above: arrays and string literals are the only
\* values these characters can spell (no digit, and no literal true/false/null).
\* A result is [ok, next, s, r, elems]: s is str(value), r is repr(value) (used
\* when the value is nested in a list, whose str() is the repr of its elements),
\* elems the str() of each element when the value is an array.
JsonFail == [ok |-> FALSE, next |-> 0, s |-> <<>>, r |-> <<>>, elems |-> <<>>]

RECURSIVE SkipWs(_, _)
SkipWs(s, i) ==
    IF i <= Len(s) /\ s[i] \in Whitespace THEN SkipWs(s, i + 1) ELSE i

\* repr() of a str holding no apostrophe
RECURSIVE ReprBody(_)
ReprBody(s) ==
    IF s = <<>> THEN <<>>
    ELSE (CASE Head(s) = BS -> <<BS, BS>>
            [] Head(s) = LF -> <<BS, "n">>
            [] OTHER -> <<Head(s)>>) \o ReprBody(Tail(s))

ReprStr(s) == <<AP>> \o ReprBody(s) \o <<AP>>

RECURSIVE JoinComma(_)
JoinComma(rs) ==
    IF rs = <<>> THEN <<>>
    ELSE IF Len(rs) = 1 THEN rs[1]
    ELSE rs[1] \o <<CM, SP>> \o JoinComma(Tail(rs))

ReprList(rs) == <<LB>> \o JoinComma(rs) \o <<RB>>

\* py_scanstring (strict): from position j, just after the opening quote
RECURSIVE ScanString(_, _, _)
ScanString(s, j, acc) ==
    IF j > Len(s) THEN JsonFail
    ELSE IF s[j] = QT
         THEN [ok |-> TRUE, next |-> j + 1, s |-> acc, r |-> ReprStr(acc), elems |-> <<>>]
    ELSE IF s[j] = LF THEN JsonFail
    ELSE IF s[j] = BS
         THEN IF j + 1 > Len(s) THEN JsonFail
              ELSE IF s[j + 1] = QT THEN ScanString(s, j + 2, Append(acc, QT))
              ELSE IF s[j + 1] = BS THEN ScanString(s, j + 2, Append(acc, BS))
              ELSE IF s[j + 1] = "n" THEN ScanString(s, j + 2, Append(acc, LF))
              ELSE JsonFail
    ELSE ScanString(s, j + 1, Append(acc, s[j]))

RECURSIVE ScanValue(_, _)
RECURSIVE ScanItems(_, _, _, _)

\* JSONArray after the first value position j
ScanItems(s, j, elems, reprs) ==
    LET v == ScanValue(s, j)
        k == SkipWs(s, v.next)
    IN  IF ~v.ok \/ k > Len(s) THEN JsonFail
        ELSE IF s[k] = RB
             THEN [ok |-> TRUE, next |-> k + 1,
                   s |-> ReprList(Append(reprs, v.r)),
                   r |-> ReprList(Append(reprs, v.r)),
                   elems |-> Append(elems, v.s)]
        ELSE IF s[k] = CM
             THEN ScanItems(s, SkipWs(s, k + 1), Append(elems, v.s), Append(reprs, v.r))
        ELSE JsonFail

\* scan_once
ScanValue(s, i) ==
    IF i > Len(s) THEN JsonFail
    ELSE IF s[i] = QT THEN ScanString(s, i + 1, <<>>)
    ELSE IF s[i] = LB
         THEN LET j == SkipWs(s, i + 1)
              IN  IF j <= Len(s) /\ s[j] = RB
                  THEN [ok |-> TRUE, next |-> j + 1, s |-> <<LB, RB>>,
                        r |-> <<LB, RB>>, elems |-> <<>>]
                  ELSE ScanItems(s, j, <<>>, <<>>)
    ELSE JsonFail

\* json.loads(s): [ok |-> FALSE] when it raises; the whole text must be one value
JsonLoads(s) ==
    LET v == ScanValue(s, SkipWs(s, 1))
    IN  IF v.ok /\ SkipWs(s, v.next) = Len(s) + 1 THEN v ELSE JsonFail

\* ---------------------------------------------------------------- GeminiClient.send
\* The subprocess either cannot be started (raised, with the exception's text msg)
\* or ends with a return code and its two output streams.
GeminiSend(raised, msg, returncode, stdout, stderr) ==
    IF raised THEN <<Null, Some(msg)>>
    ELSE IF returncode # 0
         THEN <<Null, Some(Strip(IF stderr # <<>> THEN stderr ELSE stdout))>>
         ELSE <<Some(Strip(stdout)), Null>>

\* `if response:` -- neither None nor the empty string
Truthy(opt) == opt # Null /\ opt[1] # <<>>

\* ---------------------------------------------------------------- _scan_workload
\* the source-language column name
RU == <<"r", "u">>

\* header.index('ru'), 0-based
HeaderIndex(header) ==
    (CHOOSE i \in 1..Len(header) :
        header[i] = RU /\ \A j \in 1..(i - 1) : header[j] # RU) - 1

Contains(header, name) == \E i \in 1..Len(header) : header[i] = name

\* DictSet that keeps the first column of a repeated code
DictSetKeepFirst(targets, code, i) ==
    IF \E p \in 1..Len(targets) : targets[p].code = code
    THEN targets
    ELSE Append(targets, [code |-> code, col |-> i])

\* targets[code] = i on an insertion-ordered dict, kept as a sequence of
\* [code, col]: an existing key keeps its place and takes the new value
DictSet(targets, code, i) ==
    IF \E p \in 1..Len(targets) : targets[p].code = code
    THEN [p \in 1..Len(targets) |->
            IF targets[p].code = code THEN [code |-> code, col |-> i] ELSE targets[p]]
    ELSE Append(targets, [code |-> code, col |-> i])

\* for i in range(ru_index + 1, len(header)), i 0-based
RECURSIVE ScanTargets(_, _, _, _)
ScanTargets(header, i, target_langs, targets) ==
    IF i >= Len(header) THEN targets
    ELSE LET code == Strip(header[i + 1])
         IN  IF code # <<>> /\ ~(target_langs # {} /\ code \notin target_langs)
             THEN ScanTargets(header, i + 1, target_langs, DictSet(targets, code, i))
             ELSE ScanTargets(header, i + 1, target_langs, targets)

\* the targets dict of one header that holds 'ru'
HeaderTargets(header, target_langs) ==
    ScanTargets(header, HeaderIndex(header) + 1, target_langs, <<>>)

\* _scan_workload over the files from position k on; unreadable holds the
\* positions whose open() raises.  An empty file and a header without 'ru' are
\* passed over, and so is a file with no target left.
RECURSIVE ScanFiles(_, _, _, _, _)
ScanFiles(files, k, target_langs, unreadable, acc) ==
    IF k > Len(files) THEN acc
    ELSE IF k \in unreadable \/ files[k] = <<>> \/ files[k][1] = <<>>
            \/ ~Contains(files[k][1], RU)
         THEN ScanFiles(files, k + 1, target_langs, unreadable, acc)
         ELSE LET targets == HeaderTargets(files[k][1], target_langs)
              IN  IF targets # <<>>
                  THEN ScanFiles(files, k + 1, target_langs, unreadable,
                         [total_steps |-> acc.total_steps + Len(targets),
                          file_meta |-> Append(acc.file_meta,
                                          [file |-> k, targets |-> targets])])
                  ELSE ScanFiles(files, k + 1, target_langs, unreadable, acc)

ScanWorkload(files, target_langs, unreadable) ==
    ScanFiles(files, 1, target_langs, unreadable,
              [total_steps |-> 0, file_meta |-> <<>>])

\* ---------------------------------------------------------------- process: rows of a task
\* HasTranslation that takes a whitespace-only cell for a translation
HasTranslationUntrimmed(row, col_index) ==
    Len(row) > col_index /\ row[col_index + 1] # <<>>

\* has_translation = len(row) > col_index and row[col_index].strip() != ""
HasTranslation(row, col_index) ==
    Len(row) > col_index /\ Strip(row[col_index + 1]) # <<>>

\* row[ru_index] if len(row) > ru_index else ""
SourceCell(row, ru_index) ==
    IF Len(row) > ru_index THEN row[ru_index + 1] ELSE <<>>

\* the resume-mode loop `for i in range(1, len(rows))`; table[i + 1] is rows[i]
RECURSIVE ResumeSelect(_, _, _, _, _)
ResumeSelect(table, i, col_index, ru_index, acc) ==
    IF i >= Len(table) THEN acc
    ELSE IF ~HasTranslation(table[i + 1], col_index)
         THEN ResumeSelect(table, i + 1, col_index, ru_index,
                [indices |-> Append(acc.indices, i),
                 subset |-> Append(acc.subset, SourceCell(table[i + 1], ru_index))])
         ELSE ResumeSelect(table, i + 1, col_index, ru_index, acc)

\* indices_to_process and source_subset of one task
SelectRows(table, col_index, ru_index, skip) ==
    IF skip
    THEN ResumeSelect(table, 1, col_index, ru_index, [indices |-> <<>>, subset |-> <<>>])
    ELSE [indices |-> [k \in 1..(Len(table) - 1) |-> k],
          subset |-> [k \in 1..(Len(table) - 1) |-> SourceCell(table[k + 1], ru_index)]]

\* ---------------------------------------------------------------- process: response
\* ParseResponse that ends the array at the first closing bracket
ParseResponseFirstClose(resp) ==
    LET start_idx == Find(resp, LB)
        end_idx == Find(resp, RB)
    IN  IF start_idx # -1 /\ end_idx # -1
        THEN LET j == JsonLoads(Slice(resp, start_idx, end_idx + 1))
             IN  IF j.ok THEN j.elems ELSE SplitEscaped(resp)
        ELSE SplitEscaped(resp)

\* the translated lines of a truthy response; each line is kept as its str()
ParseResponse(resp) ==
    LET start_idx == Find(resp, LB)
        end_idx == RFind(resp, RB)
    IN  IF start_idx # -1 /\ end_idx # -1
        THEN LET j == JsonLoads(Slice(resp, start_idx, end_idx + 1))
             IN  IF j.ok THEN j.elems ELSE SplitEscaped(resp)
        ELSE SplitEscaped(resp)

\* PadRow that puts the padding cells in front of the record
RECURSIVE PadRowFront(_, _)
PadRowFront(row, col_index) ==
    IF Len(row) <= col_index THEN PadRowFront(<< <<>> >> \o row, col_index) ELSE row

\* while len(target_row) <= col_index: target_row.append("")
RECURSIVE PadRow(_, _)
PadRow(row, col_index) ==
    IF Len(row) <= col_index THEN PadRow(Append(row, <<>>), col_index) ELSE row

\* SetCell that stores the line as it came
SetCellUntrimmed(row, col_index, line) ==
    [PadRow(row, col_index) EXCEPT ![col_index + 1] = line]

\* target_row[col_index] = str(line).strip()
SetCell(row, col_index, line) ==
    [PadRow(row, col_index) EXCEPT ![col_index + 1] = Strip(line)]

\* FillData that writes only when the response has a line for every row
RECURSIVE FillDataStrict(_, _, _, _, _)
FillDataStrict(table, indices, lines, col_index, idx) ==
    IF idx >= Len(indices) THEN table
    ELSE IF Len(lines) >= Len(indices)
         THEN FillDataStrict([table EXCEPT ![indices[idx + 1] + 1] =
                                  SetCell(@, col_index, lines[idx + 1])],
                             indices, lines, col_index, idx + 1)
         ELSE FillDataStrict(table, indices, lines, col_index, idx + 1)

\* the Fill Data loop from position idx (0-based) of indices_to_process on
RECURSIVE FillData(_, _, _, _, _)
FillData(table, indices, lines, col_index, idx) ==
    IF idx >= Len(indices) THEN table
    ELSE IF idx < Len(lines)
         THEN FillData([table EXCEPT ![indices[idx + 1] + 1] =
                            SetCell(@, col_index, lines[idx + 1])],
                       indices, lines, col_index, idx + 1)
         ELSE FillData(table, indices, lines, col_index, idx + 1)

\* ---------------------------------------------------------------- process: prompt
\* the placeholders of a prompt template
TargetLangPH ==
    <<"{", "t", "a", "r", "g", "e", "t", "_", "l", "a", "n", "g", "}">>

GlossaryPH ==
    <<"{", "g", "l", "o", "s", "s", "a", "r", "y", "}">>

TextPH ==
    <<"{", "t", "e", "x", "t", "}">>

\* the fixed texts of lines 498, 501 and 512
GlossaryHeading ==
    <<LF, "G", "L", "O", "S", "S", "A", "R", "Y", SP, "/", SP, "T", "E", "R", "M", "I",
      "N", "O", "L", "O", "G", "Y", SP, "(", "M", "a", "n", "d", "a", "t", "o", "r",
      "y", ")", ":", LF>>

GlossaryClosingLead ==
    <<"P", "l", "e", "a", "s", "e", SP, "u", "s", "e", SP, "t", "h", "e", "s", "e", SP,
      "e", "x", "a", "c", "t", SP>>

GlossaryClosingTail ==
    <<SP, "t", "r", "a", "n", "s", "l", "a", "t", "i", "o", "n", "s", SP, "f", "o",
      "r", SP, "t", "h", "e", SP, "t", "e", "r", "m", "s", SP, "l", "i", "s", "t", "e",
      "d", SP, "a", "b", "o", "v", "e", ".", LF>>

InputHeading ==
    <<LF, "I", "n", "p", "u", "t", ":", LF>>

TermArrow ==
    <<SP, "-", ">", SP>>

\* `sub in s`
HasSub(s, sub) ==
    \E i \in 1..(Len(s) - Len(sub) + 1) : SubSeq(s, i, i + Len(sub) - 1) = sub

\* s.replace(old, new) for a non-empty old: every occurrence, left to right,
\* without overlap
RECURSIVE ReplaceFrom(_, _, _, _)
ReplaceFrom(s, i, old, new) ==
    IF i > Len(s) THEN <<>>
    ELSE IF i + Len(old) - 1 <= Len(s) /\ SubSeq(s, i, i + Len(old) - 1) = old
         THEN new \o ReplaceFrom(s, i + Len(old), old, new)
         ELSE <<s[i]>> \o ReplaceFrom(s, i + 1, old, new)

Replace(s, old, new) == ReplaceFrom(s, 1, old, new)

\* "\n".join(lines)
RECURSIVE JoinLines(_)
JoinLines(lines) ==
    IF lines = <<>> THEN <<>>
    ELSE IF Len(lines) = 1 THEN lines[1]
    ELSE lines[1] \o <<LF>> \o JoinLines(Tail(lines))

\* the glossary is a dict in insertion order: a sequence of [code, terms] with
\* distinct codes, terms a sequence of [term, translation]
GlossaryHas(g, code) == \E k \in 1..Len(g) : g[k].code = code

GlossaryTerms(g, code) == g[CHOOSE k \in 1..Len(g) : g[k].code = code].terms

RECURSIVE TermLines(_)
TermLines(terms) ==
    IF terms = <<>> THEN <<>>
    ELSE <<"-", SP>> \o Head(terms).term \o TermArrow \o Head(terms).translation
         \o <<LF>> \o TermLines(Tail(terms))

\* lines 496-501: full_glossary is None (Null) or a dict (Some(g)); an empty
\* dict is falsy
GlossaryText(glossary, code) ==
    IF glossary # Null /\ glossary[1] # <<>> /\ GlossaryHas(glossary[1], code)
    THEN GlossaryHeading \o TermLines(GlossaryTerms(glossary[1], code))
         \o GlossaryClosingLead \o code \o GlossaryClosingTail
    ELSE <<>>

\* lines 507-512: final_prompt
BuildPrompt(template, code, glossary_text, text_block) ==
    LET with_lang == Replace(template, TargetLangPH, code)
    IN  IF HasSub(with_lang, GlossaryPH)
        THEN Replace(with_lang, GlossaryPH, glossary_text)
        ELSE Replace(with_lang, TextPH, glossary_text \o InputHeading \o text_block)

\* ---------------------------------------------------------------- state
VARIABLES
    inputFiles,          \* the CSV files found under input_path, in walk order
    scan_unreadable,     \* the files whose open() raises during the scan
    target_langs,        \* the language filter (empty: all)
    skip_existing,       \* resume mode
    wide,                \* which pool the backend's outputs are drawn from
    outFiles,            \* the files under <input>_translated, <<>> when absent or empty
    pc,                  \* position of process()
    total_steps, workload_meta, current_step, errors,
    fi,                  \* position in workload_meta (outer for loop), 1-based
    li,                  \* position in target_indices (inner for loop), 1-based
    rows,                \* the current file's table in memory
    indices_to_process, source_subset,
    prompt_template,     \* the template load_prompt returned (not empty)
    full_glossary,       \* what _load_glossary returned: Null or Some(dict)
    final_prompt,        \* the request text of the current task
    response, error,     \* what GeminiClient.send returned
    translated_lines,
    calls,               \* the backend calls made so far, as <<file, code>>
    log,                 \* the tasks finished so far, with their outcome
    previous             \* Null, or what the run before this one left behind

\* what a run is given and never assigns
config == <<inputFiles, scan_unreadable, target_langs, wide, previous, prompt_template,
           full_glossary>>

vars == <<config, skip_existing, outFiles, pc, total_steps, workload_meta, current_step,
          errors, fi, li, rows, indices_to_process, source_subset, final_prompt, response,
          error, translated_lines, calls, log>>

\* ---------------------------------------------------------------- inputs
EN == <<"e", "n">>
JP == <<"j", "p">>
ID == <<"i", "d">>
ENpadded == <<SP, "e", "n">>
A == <<"a">>
B == <<"b">>
Empty == <<>>
White == <<SP>>

\* headers of the orchestration runs: the plain one, a leading id column with a
\* padded code, a repeated code, and one without the source column
Headers ==
    { <<RU, EN, JP>>, <<ID, RU, ENpadded>>, <<RU, EN, JP, EN>>, <<EN, JP>> }

\* data rows: shorter than the header, a translated and an empty target, a
\* whitespace-only target
RowPool == { <<A>>, <<A, B, Empty>>, <<B, White, A>> }

Tables(headers, maxRows) ==
    { <<h>> \o body : h \in headers,
                      body \in UNION { [1..n -> RowPool] : n \in 0..maxRows } }

SecondFile == << <<RU, EN>>, <<A>> >>

Filters == { {}, {EN} }

\* what the backend prints on success, before send() strips it
CuratedOutputs ==
    { <<LB, QT, "x", QT, CM, QT, "x", QT, CM, QT, "x", QT, CM, QT, "x", QT, RB>>,
      <<SP, LB, QT, SP, "y", QT, RB>>,
      <<"x", BS, "n", BS, "n", "x", SP>>,
      <<LB, QT, "x", QT, CM, RB>>,
      <<>> }

\* the pieces the outputs of the response-parsing runs are built from
Tokens ==
    { <<LB>>, <<RB>>, <<CM>>, <<QT>>, <<QT, SP, "x", QT>>, <<BS, "n">>, <<"x">> }

RECURSIVE Flatten(_)
Flatten(ts) == IF ts = <<>> THEN <<>> ELSE Head(ts) \o Flatten(Tail(ts))

TokenOutputs ==
    { Flatten(ts) : ts \in UNION { [1..n -> Tokens] : n \in 0..MaxRespTokens } }

Outputs == IF wide THEN TokenOutputs ELSE CuratedOutputs

\* everything send() can return to process()
BackendResults ==
    { GeminiSend(FALSE, <<>>, 0, o, <<>>) : o \in Outputs }
    \cup { GeminiSend(FALSE, <<>>, 1, <<>>, e) : e \in { <<>>, <<"e", SP>> } }
    \cup { GeminiSend(TRUE, <<"e">>, 0, <<>>, <<>>) }

\* a template with the language and the source text, and no glossary placeholder
PlainTemplate == <<"T", SP>> \o TargetLangPH \o <<":", LF>> \o TextPH

\* ---------------------------------------------------------------- process()
InitRun(files, bad, langs, skip, w, template, glossary) ==
    /\ inputFiles = files
    /\ prompt_template = template
    /\ full_glossary = glossary
    /\ final_prompt = <<>>
    /\ scan_unreadable = bad
    /\ target_langs = langs
    /\ skip_existing = skip
    /\ wide = w
    /\ outFiles = [k \in 1..Len(files) |-> <<>>]
    /\ pc = "start"
    /\ total_steps = 0
    /\ workload_meta = <<>>
    /\ current_step = 0
    /\ errors = 0
    /\ fi = 1
    /\ li = 1
    /\ rows = <<>>
    /\ indices_to_process = <<>>
    /\ source_subset = <<>>
    /\ response = Null
    /\ error = Null
    /\ translated_lines = <<>>
    /\ calls = <<>>
    /\ log = <<>>
    /\ previous = Null

\* a run with the plain template and no glossary file
InitWith(files, bad, langs, skip, w) ==
    InitRun(files, bad, langs, skip, w, PlainTemplate, Null)

\* one file with up to MaxRows data rows, or two files, the first a short one
Init ==
    \E langs \in Filters, skip \in BOOLEAN :
        \/ \E t \in Tables(Headers, MaxRows) :
              InitWith(<<t>>, {}, langs, skip, FALSE)
        \/ \E t \in Tables(Headers, 1), bad \in SUBSET {1, 2} :
              InitWith(<<t, SecondFile>>, bad, langs, skip, FALSE)

CurMeta == workload_meta[fi]
CurFile == CurMeta.file
lang_code == CurMeta.targets[li].code
col_index == CurMeta.targets[li].col
ru_index == HeaderIndex(rows[1])

LogEntry(outcome, lines) ==
    [file |-> CurFile, code |-> lang_code, col |-> col_index, outcome |-> outcome,
     rowIndices |-> indices_to_process, lines |-> lines]

\* Advance that gives up the rest of the file
AdvanceNextFile == li' = li /\ fi' = fi + 1 /\ pc' = "file"

\* the end of one iteration of the inner loop: the next language, or the next file
Advance ==
    IF li < Len(CurMeta.targets)
    THEN li' = li + 1 /\ fi' = fi /\ pc' = "task"
    ELSE li' = li /\ fi' = fi + 1 /\ pc' = "file"

\* lines 429-444: the scan, and the early return when there is nothing to do
Scan ==
    /\ pc = "start"
    /\ LET w == ScanWorkload(inputFiles, target_langs, scan_unreadable)
       IN  /\ total_steps' = w.total_steps
           /\ workload_meta' = w.file_meta
           /\ pc' = IF w.total_steps = 0 THEN "nothing" ELSE "file"
    /\ current_step' = 0
    /\ errors' = 0
    /\ fi' = 1
    /\ UNCHANGED <<config, skip_existing, outFiles, li, rows, indices_to_process,
                   source_subset, final_prompt, response, error, translated_lines, calls, log>>

\* lines 446-453: the next file is read into memory
ReadFile ==
    /\ pc = "file"
    /\ fi <= Len(workload_meta)
    /\ rows' = inputFiles[CurFile]
    /\ li' = 1
    /\ pc' = "task"
    /\ UNCHANGED <<config, skip_existing, outFiles, total_steps, workload_meta,
                   current_step, errors, fi, indices_to_process, source_subset, final_prompt,
                   response, error, translated_lines, calls, log>>

\* ReadFail that counts one step for the whole file
ReadFailOneStep ==
    /\ pc = "file"
    /\ fi <= Len(workload_meta)
    /\ errors' = errors + 1
    /\ current_step' = current_step + 1
    /\ log' = log \o [k \in 1..Len(CurMeta.targets) |->
                        [file |-> CurFile, code |-> CurMeta.targets[k].code,
                         col |-> CurMeta.targets[k].col, outcome |-> "unread",
                         rowIndices |-> <<>>, lines |-> <<>>]]
    /\ fi' = fi + 1
    /\ UNCHANGED <<config, skip_existing, outFiles, pc, total_steps, workload_meta, li,
                   rows, indices_to_process, source_subset, final_prompt, response,
                   error, translated_lines, calls>>

\* lines 454-459: the file cannot be read; all its steps are passed over
ReadFail ==
    /\ pc = "file"
    /\ fi <= Len(workload_meta)
    /\ errors' = errors + 1
    /\ current_step' = current_step + Len(CurMeta.targets)
    /\ log' = log \o [k \in 1..Len(CurMeta.targets) |->
                        [file |-> CurFile, code |-> CurMeta.targets[k].code,
                         col |-> CurMeta.targets[k].col, outcome |-> "unread",
                         rowIndices |-> <<>>, lines |-> <<>>]]
    /\ fi' = fi + 1
    /\ UNCHANGED <<config, skip_existing, outFiles, pc, total_steps, workload_meta, li,
                   rows, indices_to_process, source_subset, final_prompt, response, error,
                   translated_lines, calls>>

\* lines 559-569: the loop is over, the final report is printed
Report ==
    /\ pc = "file"
    /\ fi > Len(workload_meta)
    /\ pc' = "done"
    /\ UNCHANGED <<config, skip_existing, outFiles, total_steps, workload_meta,
                   current_step, errors, fi, li, rows, indices_to_process,
                   source_subset, final_prompt, response, error, translated_lines, calls, log>>

\* lines 471-489: resume mode finds nothing left to translate in this column
SkipTask ==
    /\ pc = "task"
    /\ LET sel == SelectRows(rows, col_index, ru_index, skip_existing)
       IN  /\ skip_existing /\ sel.indices = <<>>
           /\ indices_to_process' = sel.indices
           /\ source_subset' = sel.subset
           /\ log' = Append(log, [LogEntry("skipped", <<>>) EXCEPT !.rowIndices = <<>>])
    /\ current_step' = current_step + 1
    /\ Advance
    /\ UNCHANGED <<config, skip_existing, outFiles, total_steps, workload_meta, errors,
                   rows, final_prompt, response, error, translated_lines, calls>>

\* lines 471-512: the rows of the task are chosen and the prompt is built
PrepareTask ==
    /\ pc = "task"
    /\ LET sel == SelectRows(rows, col_index, ru_index, skip_existing)
       IN  /\ ~(skip_existing /\ sel.indices = <<>>)
           /\ indices_to_process' = sel.indices
           /\ source_subset' = sel.subset
           /\ final_prompt' = BuildPrompt(prompt_template, lang_code,
                                          GlossaryText(full_glossary, lang_code),
                                          JoinLines(sel.subset))
    /\ pc' = "send"
    /\ UNCHANGED <<config, skip_existing, outFiles, total_steps, workload_meta,
                   current_step, errors, fi, li, rows, response, error,
                   translated_lines, calls, log>>

\* line 515: the blocking backend call
Send ==
    /\ pc = "send"
    /\ \E r \in BackendResults : response' = r[1] /\ error' = r[2]
    /\ calls' = Append(calls, <<CurFile, lang_code>>)
    /\ pc' = "recv"
    /\ UNCHANGED <<config, skip_existing, outFiles, total_steps, workload_meta,
                   current_step, errors, fi, li, rows, indices_to_process,
                   source_subset, final_prompt, translated_lines, log>>

\* lines 517-540: the response is parsed and written into the table in memory
HandleResponse ==
    /\ pc = "recv"
    /\ Truthy(response)
    /\ LET lines == ParseResponse(response[1])
       IN  /\ translated_lines' = lines
           /\ rows' = FillData(rows, indices_to_process, lines, col_index, 0)
    /\ pc' = "save"
    /\ UNCHANGED <<config, skip_existing, outFiles, total_steps, workload_meta,
                   current_step, errors, fi, li, indices_to_process, source_subset, final_prompt,
                   response, error, calls, log>>

\* HandleFailure that forgets to count the failure
HandleFailureUncounted ==
    /\ pc = "recv"
    /\ ~Truthy(response)
    /\ current_step' = current_step + 1
    /\ log' = Append(log, LogEntry("failed", <<>>))
    /\ Advance
    /\ UNCHANGED <<config, skip_existing, outFiles, total_steps, workload_meta, errors,
                   rows, indices_to_process, source_subset, final_prompt, response, error,
                   translated_lines, calls>>

\* HandleFailure that sends the request of the failed task again
HandleFailureRetry ==
    /\ pc = "recv"
    /\ ~Truthy(response)
    /\ errors' = errors + 1
    /\ pc' = "send"
    /\ UNCHANGED <<config, skip_existing, outFiles, total_steps, workload_meta,
                   current_step, fi, li, rows, indices_to_process, source_subset,
                   final_prompt, response, error, translated_lines, calls, log>>

\* lines 551-557: no response; the task is counted as failed
HandleFailure ==
    /\ pc = "recv"
    /\ ~Truthy(response)
    /\ errors' = errors + 1
    /\ current_step' = current_step + 1
    /\ log' = Append(log, LogEntry("failed", <<>>))
    /\ Advance
    /\ UNCHANGED <<config, skip_existing, outFiles, total_steps, workload_meta, rows,
                   indices_to_process, source_subset, final_prompt, response, error,
                   translated_lines, calls>>

\* lines 544-545: makedirs and open(output_file_path, 'w'), which empties the file
SaveOpen ==
    /\ pc = "save"
    /\ outFiles' = [outFiles EXCEPT ![CurFile] = <<>>]
    /\ pc' = "write"
    /\ UNCHANGED <<config, skip_existing, total_steps, workload_meta, current_step,
                   errors, fi, li, rows, indices_to_process, source_subset, final_prompt, response,
                   error, translated_lines, calls, log>>

\* lines 544-549: makedirs or open raises; the file on disk is as it was
SaveOpenFail ==
    /\ pc = "save"
    /\ errors' = errors + 1
    /\ current_step' = current_step + 1
    /\ log' = Append(log, LogEntry("savefail", translated_lines))
    /\ Advance
    /\ UNCHANGED <<config, skip_existing, outFiles, total_steps, workload_meta, rows,
                   indices_to_process, source_subset, final_prompt, response, error,
                   translated_lines, calls>>

\* line 546: writerows(rows) and the close of the file
SaveWrite ==
    /\ pc = "write"
    /\ outFiles' = [outFiles EXCEPT ![CurFile] = rows]
    /\ current_step' = current_step + 1
    /\ log' = Append(log, LogEntry("translated", translated_lines))
    /\ Advance
    /\ UNCHANGED <<config, skip_existing, total_steps, workload_meta, errors, rows,
                   indices_to_process, source_subset, final_prompt, response, error,
                   translated_lines, calls>>

\* SaveWriteFail that puts the table in memory back as the file was read
SaveWriteFailRollback ==
    /\ pc = "write"
    /\ \E n \in {0, Len(rows) - 1} :
        outFiles' = [outFiles EXCEPT ![CurFile] = SubSeq(rows, 1, n)]
    /\ rows' = inputFiles[CurFile]
    /\ errors' = errors + 1
    /\ current_step' = current_step + 1
    /\ log' = Append(log, LogEntry("savefail", translated_lines))
    /\ Advance
    /\ UNCHANGED <<config, skip_existing, total_steps, workload_meta,
                   indices_to_process, source_subset, final_prompt, response, error,
                   translated_lines, calls>>

\* lines 546-549: writerows raises part-way; a prefix of the records is on disk
SaveWriteFail ==
    /\ pc = "write"
    /\ \E n \in {0, Len(rows) - 1} :
        outFiles' = [outFiles EXCEPT ![CurFile] = SubSeq(rows, 1, n)]
    /\ errors' = errors + 1
    /\ current_step' = current_step + 1
    /\ log' = Append(log, LogEntry("savefail", translated_lines))
    /\ Advance
    /\ UNCHANGED <<config, skip_existing, total_steps, workload_meta, rows,
                   indices_to_process, source_subset, final_prompt, response, error,
                   translated_lines, calls>>

Next ==
    \/ Scan
    \/ ReadFile
    \/ ReadFail
    \/ Report
    \/ SkipTask
    \/ PrepareTask
    \/ Send
    \/ HandleResponse
    \/ HandleFailure
    \/ SaveOpen
    \/ SaveOpenFail
    \/ SaveWrite
    \/ SaveWriteFail

Spec == Init /\ [][Next]_vars

\* ---------------------------------------------------------------- a second run
\* process() is called again on the same input_path with resume on (--resume):
\* its locals start afresh, the files on disk are as the first run left them
Rerun ==
    /\ pc = "done"
    /\ previous = Null
    /\ previous' = Some([log |-> log, outFiles |-> outFiles, total_steps |-> total_steps,
                         errors |-> errors])
    /\ skip_existing' = TRUE
    /\ pc' = "start"
    /\ total_steps' = 0
    /\ workload_meta' = <<>>
    /\ current_step' = 0
    /\ errors' = 0
    /\ fi' = 1
    /\ li' = 1
    /\ rows' = <<>>
    /\ indices_to_process' = <<>>
    /\ source_subset' = <<>>
    /\ final_prompt' = <<>>
    /\ response' = Null
    /\ error' = Null
    /\ translated_lines' = <<>>
    /\ calls' = <<>>
    /\ log' = <<>>
    /\ UNCHANGED <<inputFiles, scan_unreadable, target_langs, wide, outFiles,
                   prompt_template, full_glossary>>

RerunNext == Next \/ Rerun

InitRerun ==
    \E t \in Tables({<<RU, EN, JP>>, <<ID, RU, ENpadded>>}, MaxRows - 1),
       langs \in Filters, skip \in BOOLEAN :
        InitWith(<<t>>, {}, langs, skip, FALSE)

RerunSpec == InitRerun /\ [][RerunNext]_vars

\* ---------------------------------------------------------------- the scan alone
\* _scan_workload on one file that is only a header, over every header of up to
\* MaxHeaderLen cells
HeaderCells == { RU, EN, ENpadded, JP, White }

ScanFilters == { {}, {EN}, {EN, JP} }

InitScan ==
    \E h \in UNION { [1..n -> HeaderCells] : n \in 0..MaxHeaderLen },
       bad \in SUBSET {1}, langs \in ScanFilters :
        InitWith(<< <<h>> >>, bad, langs, FALSE, FALSE)

ScanSpec == InitScan /\ [][Scan]_vars

\* ---------------------------------------------------------------- one task, any response
\* one file with one target language, in overwrite mode, whose backend output is
\* any text of up to MaxRespTokens tokens; the save succeeds
InitParse ==
    InitWith(<< << <<RU, EN>>, <<A>>, <<B, Empty>> >> >>, {}, {}, FALSE, TRUE)

ParseNext ==
    \/ Scan
    \/ ReadFile
    \/ PrepareTask
    \/ Send
    \/ HandleResponse
    \/ HandleFailure
    \/ SaveOpen
    \/ SaveWrite
    \/ Report

ParseSpec == InitParse /\ [][ParseNext]_vars

\* ---------------------------------------------------------------- the prompt
\* one file with two target languages, under every template of up to
\* MaxTemplatePieces pieces and with and without a glossary
TemplatePieces == { TargetLangPH, GlossaryPH, TextPH, <<"T", LF>> }

Templates ==
    { Flatten(ts) : ts \in UNION { [1..n -> TemplatePieces] : n \in 1..MaxTemplatePieces } }

\* no glossary file, an empty one, one for en, one for jp (no term) and en
Glossaries ==
    { Null,
      Some(<<>>),
      Some(<< [code |-> EN, terms |-> << [term |-> A, translation |-> <<"x">>] >>] >>),
      Some(<< [code |-> JP, terms |-> <<>>],
              [code |-> EN, terms |-> << [term |-> A, translation |-> <<"x">>],
                                         [term |-> B, translation |-> <<"y">>] >>] >>) }

PromptTables ==
    { << <<RU, EN, JP>>, <<A>>, <<B, White, A>> >>,
      << <<RU, EN, JP>>, <<B, White, A>> >> }

InitPrompt ==
    \E t \in PromptTables, skip \in BOOLEAN, template \in Templates, g \in Glossaries :
        InitRun(<<t>>, {}, {}, skip, FALSE, template, g)

PromptNext ==
    \/ Scan
    \/ ReadFile
    \/ SkipTask
    \/ PrepareTask
    \/ Send
    \/ HandleResponse
    \/ HandleFailure
    \/ SaveOpen
    \/ SaveWrite
    \/ Report

PromptSpec == InitPrompt /\ [][PromptNext]_vars

\* ================================================================ claims
\* helpers of the statements below
DataRows(table) == 1..(Len(table) - 1)

\* the cell of record `row` at 0-based column c; a missing trailing cell reads
\* as the empty text
CellAt(row, c) == IF Len(row) > c THEN row[c + 1] ELSE <<>>

\* the target cell is missing, or empty once trimmed
NeedsTranslation(row, c) == Len(row) <= c \/ Strip(row[c + 1]) = <<>>

Min(a, b) == IF a <= b THEN a ELSE b

\* ---------------------------------------------------------------- C1
\* the backend returned a failure reason and no text
BackendFailed == pc = "recv" /\ response = Null

\* the step process() takes from there
C1_FailureStep ==
    BackendFailed =>
        /\ errors' = errors + 1
        /\ current_step' = current_step + 1
        /\ rows' = rows
        /\ outFiles' = outFiles
        /\ pc' \in {"task", "file"}
        /\ \/ fi' = fi /\ li' = li + 1 /\ li < Len(CurMeta.targets)
           \/ fi' = fi + 1 /\ li = Len(CurMeta.targets)

\* one file, two target languages: the first task was translated with a line
\* for each of its rows and saved, the second got no response
C1_ScenarioCase ==
    /\ pc = "done"
    /\ Len(inputFiles) = 1
    /\ Len(log) = 2
    /\ log[1].outcome = "translated"
    /\ Len(log[1].lines) >= Len(log[1].rowIndices)
    /\ log[2].outcome = "failed"

C1_Scenario ==
    C1_ScenarioCase =>
        LET in == inputFiles[1]
            out == outFiles[1]
            t1 == log[1]
            t2 == log[2]
        IN  /\ errors = 1
            /\ total_steps = 2
            /\ Len(out) = Len(in)
            /\ \A k \in 1..Len(t1.rowIndices) :
                  /\ Len(out[t1.rowIndices[k] + 1]) > t1.col
                  /\ CellAt(out[t1.rowIndices[k] + 1], t1.col) = Strip(t1.lines[k])
            /\ \A i \in DataRows(in) :
                  /\ (\A k \in 1..Len(t1.rowIndices) : t1.rowIndices[k] # i)
                        => out[i + 1] = in[i + 1]
                  /\ CellAt(out[i + 1], t2.col) = CellAt(in[i + 1], t2.col)

\* C1: a task whose backend call fails adds exactly one to errors, changes no
\* cell of the table in memory and nothing of the output file, and the loop goes
\* on to the next task; with two target languages of one file of which only the
\* second fails, the output file holds the first language's translations, the
\* second language's column as in the input, errors = 1 and total_steps = 2.
C1_FailureIsolated == [][C1_FailureStep]_vars /\ []C1_Scenario

C1_Witness ==
    /\ C1_ScenarioCase
    /\ Len(inputFiles[1]) = 4
    /\ Len(log[1].rowIndices) = 3
    /\ error # Null

\* ---------------------------------------------------------------- C2
\* the backend returned text that process() takes as a response
SuccessStep == pc = "recv" /\ Truthy(response)

\* the 1-based positions in the table of the rows of the task
TaskRows == { indices_to_process[k] + 1 : k \in 1..Len(indices_to_process) }

C2_AlignedStep ==
    (SuccessStep /\ Len(translated_lines') >= Len(indices_to_process)) =>
        /\ Len(rows') = Len(rows)
        /\ \A k \in 1..Len(indices_to_process) :
              LET r == indices_to_process[k] + 1
              IN  /\ Len(rows'[r]) > col_index
                  /\ rows'[r][col_index + 1] = Strip(translated_lines'[k])
        /\ \A i \in 1..Len(rows) : i \notin TaskRows => rows'[i] = rows[i]

\* C2 (as amended): for a successful task whose parsed response has at least R
\* lines, R = len(rowIndices), the k-th row of rowIndices ends with its target
\* cell equal to the trimmed k-th response line (an empty cell when that line is
\* empty or whitespace), and no row outside rowIndices is modified.
C2_RowAlignment == [][C2_AlignedStep]_vars

\* C2 as stated: the cells written are moreover never empty.
C2_Original ==
    (pc = "save" /\ Len(translated_lines) >= Len(indices_to_process)) =>
        \A k \in 1..Len(indices_to_process) :
            LET r == indices_to_process[k] + 1
            IN  /\ CellAt(rows[r], col_index) = Strip(translated_lines[k])
                /\ CellAt(rows[r], col_index) # <<>>

C2_Witness ==
    /\ pc = "save"
    /\ Len(indices_to_process) >= 2
    /\ Len(translated_lines) >= Len(indices_to_process)
    /\ \E k \in 1..Len(indices_to_process) :
          /\ Strip(translated_lines[k]) = <<>>
          /\ rows[indices_to_process[k] + 1][col_index + 1] = <<>>
    /\ \E k \in 1..Len(indices_to_process) :
          rows[indices_to_process[k] + 1][col_index + 1] # <<>>

\* ---------------------------------------------------------------- C3
\* the data-row positions a task has to cover in `table`
RowsWanted(table, c) ==
    { i \in DataRows(table) : ~skip_existing \/ NeedsTranslation(table[i + 1], c) }

C3_TaskRows ==
    pc \in {"send", "recv"} =>
        /\ \A k \in 1..(Len(indices_to_process) - 1) :
              indices_to_process[k] < indices_to_process[k + 1]
        /\ { indices_to_process[k] : k \in 1..Len(indices_to_process) }
              = RowsWanted(rows, col_index)
        /\ RowsWanted(rows, col_index) = RowsWanted(inputFiles[CurFile], col_index)
        /\ Len(source_subset) = Len(indices_to_process)
        /\ \A k \in 1..Len(indices_to_process) :
              source_subset[k] = CellAt(rows[indices_to_process[k] + 1], ru_index)

\* a task is passed over without a call only in resume mode with no row wanted
C3_SkipStep ==
    pc = "task" =>
        (pc' # "send" <=> (skip_existing /\ RowsWanted(rows, col_index) = {}))

\* C3: in resume mode rowIndices is the increasing sequence of exactly the data
\* rows 1..N whose target cell is missing or empty after trimming, in overwrite
\* mode all of 1..N; sourceLines is as long and its k-th entry is the source cell
\* of row rowIndices[k], the empty text when that row is too short.
C3_RowSelection == []C3_TaskRows /\ [][C3_SkipStep]_vars

C3_Witness ==
    /\ pc = "send"
    /\ skip_existing
    /\ Len(rows) = 4
    /\ Len(indices_to_process) = 2
    /\ \E k \in 1..2 : LET row == rows[indices_to_process[k] + 1]
                       IN  Len(row) > col_index /\ row[col_index + 1] = White
    /\ \E k \in 1..2 : Len(rows[indices_to_process[k] + 1]) <= col_index

\* ---------------------------------------------------------------- C5
\* the cell writes of a finished task, as the log recorded them, are in `table`
WritesIn(table, e) ==
    \A k \in 1..Min(Len(e.rowIndices), Len(e.lines)) :
        LET r == e.rowIndices[k] + 1
        IN  Len(table) >= r /\ CellAt(table[r], e.col) = Strip(e.lines[k])

\* C5 as stated: while a task of a file is under way, from its beginning to its
\* end, the output file holds the cell writes of every earlier task of that file
\* that this run translated and saved.
C5_Original ==
    pc \in {"task", "send", "recv", "save", "write"} =>
        \A n \in 1..Len(log) :
            (log[n].file = CurFile /\ log[n].outcome = "translated")
                => WritesIn(outFiles[CurFile], log[n])

\* ---------------------------------------------------------------- C8
C8_BestEffortStep ==
    SuccessStep =>
        LET L == Len(translated_lines')
        IN  /\ Len(rows') = Len(rows)
            /\ \A k \in 1..Len(indices_to_process) :
                  LET r == indices_to_process[k] + 1
                  IN  IF k <= L
                      THEN /\ Len(rows'[r]) = (IF Len(rows[r]) > col_index
                                               THEN Len(rows[r]) ELSE col_index + 1)
                           /\ rows'[r][col_index + 1] = Strip(translated_lines'[k])
                           /\ \A c \in 0..(Len(rows'[r]) - 1) :
                                 c # col_index => rows'[r][c + 1] = CellAt(rows[r], c)
                      ELSE rows'[r] = rows[r]
            /\ \A i \in 1..Len(rows) : i \notin TaskRows => rows'[i] = rows[i]
            /\ errors' = errors
            /\ pc' = "save"

\* the save that follows a response writes the table whatever the line count
C8_SaveStep ==
    (pc = "write" /\ errors' = errors) => outFiles'[CurFile] = rows

\* C8: with L parsed lines and R rows in rowIndices, exactly the first min(L, R)
\* rows of rowIndices are assigned, row rowIndices[k] getting line k; lines past
\* R have no effect, rows past L keep their cell, and a mismatch neither adds to
\* errors nor keeps the file from being saved.
C8_BestEffort == [][C8_BestEffortStep /\ C8_SaveStep]_vars

C8_Witness ==
    /\ pc \in {"task", "file"}
    /\ log # <<>>
    /\ log[Len(log)].outcome = "translated"
    /\ Len(log[Len(log)].lines) >= 1
    /\ Len(log[Len(log)].lines) < Len(log[Len(log)].rowIndices)
    /\ outFiles[log[Len(log)].file] = rows
    /\ errors = 0

\* ---------------------------------------------------------------- C10
\* C10 as stated: send() returns exactly one of a response text and a failure
\* reason, and process() takes the success path exactly when a text came back,
\* the failure path exactly when a reason came back.
C10_Original ==
    /\ pc = "recv" => ((response = Null) # (error = Null))
    /\ pc \in {"save", "write"} => (response # Null /\ error = Null)
    /\ (pc \in {"task", "file", "done"} /\ log # <<>>
            /\ log[Len(log)].outcome = "failed")
          => (response = Null /\ error # Null)

\* ---------------------------------------------------------------- C6
\* the (file, language) tasks the scan found, in the order the loops take them
RECURSIVE TasksFrom(_, _)
TasksFrom(meta, k) ==
    IF k > Len(meta) THEN <<>>
    ELSE [n \in 1..Len(meta[k].targets) |-> <<meta[k].file, meta[k].targets[n].code>>]
         \o TasksFrom(meta, k + 1)

Discovered == TasksFrom(workload_meta, 1)

Consumed == [n \in 1..Len(log) |-> <<log[n].file, log[n].code>>]

\* the finished tasks that reached the backend
Attempted ==
    LET sent == SelectSeq(log, LAMBDA e : e.outcome \in {"translated", "savefail", "failed"})
    IN  [n \in 1..Len(sent) |-> <<sent[n].file, sent[n].code>>]

PcRank ==
    CASE pc = "start" -> 0
      [] pc = "file" -> 1
      [] pc = "task" -> 2
      [] pc = "send" -> 3
      [] pc = "recv" -> 4
      [] pc = "save" -> 5
      [] pc = "write" -> 6
      [] OTHER -> 7

\* a measure every step raises and the scan's total bounds: the loop ends
Progress == 6 * current_step + PcRank

\* inside the loops every subscript process() uses is in range, so no
\* IndexError or ValueError leaves the loop
C6_NoRaise ==
    /\ fi \in 1..Len(workload_meta)
    /\ li \in 1..Len(CurMeta.targets)
    /\ rows # <<>>
    /\ Contains(rows[1], RU)
    /\ pc # "task" =>
          \A k \in 1..Len(indices_to_process) : indices_to_process[k] + 1 \in 2..Len(rows)

C6_State ==
    /\ Progress <= 6 * total_steps + 7
    /\ pc \in {"task", "send", "recv", "save", "write"} => C6_NoRaise
    /\ \A p, q \in 1..Len(workload_meta) :
          p < q => workload_meta[p].file < workload_meta[q].file
    /\ pc # "start" =>
          /\ Len(Consumed) <= Len(Discovered)
          /\ Consumed = SubSeq(Discovered, 1, Len(Consumed))
    /\ pc = "done" =>
          /\ Consumed = Discovered
          /\ current_step = total_steps
          /\ calls = Attempted

\* C6: whatever fails, every step moves the loop on, it ends, and when the final
\* report is printed every task the scan found has been consumed exactly once,
\* in discovery order (files in scan order, languages in the order of targets).
C6_NoEarlyAbort == [][Progress' > Progress]_vars /\ []C6_State

C6_Witness ==
    /\ pc = "done"
    /\ Len(log) = 3
    /\ log[1].outcome = "failed"
    /\ log[2].outcome = "savefail"
    /\ log[3].outcome = "translated"
    /\ Len(log[3].lines) # Len(log[3].rowIndices)
    /\ errors = 2

\* ---------------------------------------------------------------- C4
\* every task of the run before was translated and saved, and every target cell
\* of every data row of its output is populated
FullySuccessful(prev) ==
    /\ prev.log # <<>>
    /\ \A n \in 1..Len(prev.log) :
          /\ prev.log[n].outcome = "translated"
          /\ LET out == prev.outFiles[prev.log[n].file]
             IN  /\ Len(out) > 1
                 /\ \A i \in DataRows(out) :
                       Strip(CellAt(out[i + 1], prev.log[n].col)) # <<>>

\* C4 as stated: run again with resume on after such a run, the scan finds no
\* task (total_steps = 0) and no backend call is made.
C4_Original ==
    (previous # Null /\ pc # "start" /\ FullySuccessful(previous[1])) =>
        (total_steps = 0 /\ calls = <<>>)

\* ---------------------------------------------------------------- C7
\* 1-based position of the source column: the first header cell that is 'ru'
SourcePos(h) == CHOOSE i \in 1..Len(h) : h[i] = RU /\ \A j \in 1..(i - 1) : h[j] # RU

\* 1-based positions after the source column whose trimmed cell is a code the
\* filter lets through
TargetPositions(h) ==
    { i \in (SourcePos(h) + 1)..Len(h) :
        /\ Strip(h[i]) # <<>>
        /\ target_langs = {} \/ Strip(h[i]) \in target_langs }

FirstPos(h, code) ==
    CHOOSE i \in TargetPositions(h) :
        /\ Strip(h[i]) = code
        /\ \A j \in TargetPositions(h) : Strip(h[j]) = code => i <= j

\* the file's header holds the source column and at least one target
HasTargets(f) ==
    /\ f \notin scan_unreadable
    /\ inputFiles[f] # <<>>
    /\ Contains(inputFiles[f][1], RU)
    /\ TargetPositions(inputFiles[f][1]) # {}

C7_Targets(h, T) ==
    /\ { T[p].code : p \in 1..Len(T) } = { Strip(h[i]) : i \in TargetPositions(h) }
    /\ \A p, q \in 1..Len(T) : p # q => T[p].code # T[q].code
    /\ \A p \in 1..Len(T) :
          /\ T[p].col + 1 \in TargetPositions(h)
          /\ T[p].col + 1 > SourcePos(h)
          /\ Strip(h[T[p].col + 1]) = T[p].code
          /\ \A i \in TargetPositions(h) : Strip(h[i]) = T[p].code => i <= T[p].col + 1
    /\ \A p, q \in 1..Len(T) :
          p < q => FirstPos(h, T[p].code) < FirstPos(h, T[q].code)

\* C7: for a header holding the source column, targets maps exactly the codes of
\* the cells after the source column that are non-empty once trimmed (and in the
\* filter when there is one), each to its column, in the order the codes first
\* appear in the header; a repeated code maps to its last column; no cell at or
\* before the source column is a target.
C7_ColumnIndex ==
    pc # "start" =>
        /\ \A m \in 1..Len(workload_meta) :
              /\ HasTargets(workload_meta[m].file)
              /\ C7_Targets(inputFiles[workload_meta[m].file][1], workload_meta[m].targets)
        /\ \A f \in 1..Len(inputFiles) :
              HasTargets(f) => \E m \in 1..Len(workload_meta) : workload_meta[m].file = f

C7_Witness ==
    /\ pc = "file"
    /\ target_langs # {}
    /\ Len(workload_meta) = 1
    /\ Len(workload_meta[1].targets) = 2
    /\ workload_meta[1].targets[1].col > workload_meta[1].targets[2].col

\* ---------------------------------------------------------------- C9
HasChar(s, c) == \E i \in 1..Len(s) : s[i] = c

\* the text from the first '[' to the last ']', empty when they are out of order
Bracketed(resp) ==
    LET first == CHOOSE i \in 1..Len(resp) :
                    resp[i] = LB /\ \A j \in 1..(i - 1) : resp[j] # LB
        last == CHOOSE i \in 1..Len(resp) :
                    resp[i] = RB /\ \A j \in (i + 1)..Len(resp) : resp[j] # RB
    IN  SubSeq(resp, first, last)

ParsesAsArray(resp) ==
    HasChar(resp, LB) /\ HasChar(resp, RB) /\ JsonLoads(Bracketed(resp)).ok

RECURSIVE JoinEscaped(_)
JoinEscaped(lines) ==
    IF Len(lines) = 1 THEN lines[1]
    ELSE lines[1] \o EscapedNewline \o JoinEscaped(Tail(lines))

\* `lines` is `text` cut at every escaped newline
IsEscapedSplit(lines, text) ==
    /\ lines # <<>>
    /\ JoinEscaped(lines) = text
    /\ \A n \in 1..Len(lines) :
          \A i \in 1..(Len(lines[n]) - 1) :
              ~(lines[n][i] = BS /\ lines[n][i + 1] = "n")

C9_ParseStep ==
    SuccessStep =>
        /\ IF ParsesAsArray(response[1])
           THEN translated_lines' = JsonLoads(Bracketed(response[1])).elems
           ELSE IsEscapedSplit(translated_lines', response[1])
        /\ errors' = errors
        /\ pc' = "save"
        /\ \A k \in 1..Min(Len(indices_to_process), Len(translated_lines')) :
              rows'[indices_to_process[k] + 1][col_index + 1] = Strip(translated_lines'[k])

\* every response process() accepts is parsed and the task ends saved
C9_State ==
    /\ pc \in {"save", "write"} => Truthy(response)
    /\ (pc = "done" /\ Truthy(response)) =>
          /\ errors = 0
          /\ log[1].outcome = "translated"
          /\ WritesIn(outFiles[1], log[1])

\* C9: when the text from the first '[' to the last ']' parses as a JSON array
\* the translated lines are its elements in order (as str() gives them); in
\* every other case they are the whole text cut at the two-character escaped
\* newline; a parse failure does not leave the task, adds nothing to errors, and
\* the fallback lines are written back.
C9_ResponseParsing == [][C9_ParseStep]_vars /\ []C9_State

C9_Witness ==
    /\ pc = "done"
    /\ Truthy(response)
    /\ HasChar(response[1], LB)
    /\ HasChar(response[1], RB)
    /\ ~ParsesAsArray(response[1])
    /\ Len(translated_lines) = 2
    /\ errors = 0
    /\ outFiles[1][2][2] = translated_lines[1]
    /\ outFiles[1][3][2] = translated_lines[2]

\* ---------------------------------------------------------------- C11
\* the glossary text of the task at hand
TaskGlossary == GlossaryText(full_glossary, lang_code)

\* C11 as stated: for a template holding the source-text placeholder the request
\* holds the source lines joined by newline in its place and the language code
\* in place of its placeholder, with or without a glossary placeholder; the
\* glossary text stands in place of the glossary placeholder when there is one,
\* and right before the source text when there is none and the language has a
\* glossary.
C11_Original ==
    (pc \in {"send", "recv"} /\ HasSub(prompt_template, TextPH)) =>
        /\ ~HasSub(final_prompt, TextPH)
        /\ HasSub(final_prompt, JoinLines(source_subset))
        /\ ~HasSub(final_prompt, TargetLangPH)
        /\ HasSub(prompt_template, TargetLangPH) => HasSub(final_prompt, lang_code)
        /\ HasSub(prompt_template, GlossaryPH) =>
              /\ ~HasSub(final_prompt, GlossaryPH)
              /\ HasSub(final_prompt, TaskGlossary)
        /\ (~HasSub(prompt_template, GlossaryPH) /\ TaskGlossary # <<>>) =>
              HasSub(final_prompt, TaskGlossary \o InputHeading \o JoinLines(source_subset))

\* the same for the templates without a glossary placeholder
C11_WithoutGlossaryPH ==
    HasSub(prompt_template, GlossaryPH) \/ C11_Original

\* a request went out that still holds the source-text placeholder
C11_TextDropped ==
    /\ pc = "recv"
    /\ HasSub(prompt_template, TargetLangPH)
    /\ HasSub(final_prompt, TextPH)
    /\ ~HasSub(final_prompt, JoinLines(source_subset))
    /\ Len(source_subset) = 2
    /\ TaskGlossary # <<>>

\* ---------------------------------------------------------------- C12
\* the save of a task that was written into the table fails
SaveFails == pc \in {"save", "write"} /\ errors' # errors

C12_SaveFailStep ==
    SaveFails =>
        /\ errors' = errors + 1
        /\ current_step' = current_step + 1
        /\ rows' = rows
        /\ log' = Append(log, LogEntry("savefail", translated_lines))
        /\ pc' \in {"task", "file"}
        /\ \/ fi' = fi /\ li' = li + 1 /\ li < Len(CurMeta.targets)
           \/ fi' = fi + 1 /\ li = Len(CurMeta.targets)

\* the tasks of the current file whose save failed
FailedSaves == { n \in 1..Len(log) : log[n].file = CurFile /\ log[n].outcome = "savefail" }

\* their cell writes stay in the table in memory while the file is at hand
C12_KeptInMemory ==
    pc \in {"task", "send", "recv", "save", "write"} =>
        \A n \in FailedSaves : WritesIn(rows, log[n])

\* a save that succeeds writes the whole table, their cells included
C12_LaterSaveStep ==
    (pc = "write" /\ errors' = errors) =>
        /\ outFiles'[CurFile] = rows
        /\ \A n \in FailedSaves : WritesIn(outFiles'[CurFile], log[n])

\* C12: a save that fails after a task was written back adds exactly one to
\* errors, leaves the cells of the task in the table in memory, and the loop
\* goes on with the next task; a later save of the same file that succeeds
\* writes the whole table, with the cells whose save had failed.
C12_PersistenceError ==
    [][C12_SaveFailStep /\ C12_LaterSaveStep]_vars /\ []C12_KeptInMemory

C12_Witness ==
    /\ pc = "done"
    /\ Len(log) = 2
    /\ log[1].file = log[2].file
    /\ log[1].outcome = "savefail"
    /\ log[2].outcome = "translated"
    /\ errors = 1
    /\ Len(log[1].rowIndices) >= 2
    /\ Len(log[1].lines) >= 2
    /\ \A k \in 1..2 :
          outFiles[log[1].file][log[1].rowIndices[k] + 1][log[1].col + 1] = <<"x">>
    /\ \A k \in 1..2 :
          CellAt(inputFiles[log[1].file][log[1].rowIndices[k] + 1], log[1].col) # <<"x">>

\* ---------------------------------------------------------------- C13
\* a backend call starts
CallStarts == calls' # calls

\* the task whose call is under way, if any
InFlight == IF pc \in {"recv", "save", "write"} THEN << <<CurFile, lang_code>> >> ELSE <<>>

C13_CallStep ==
    CallStarts =>
        /\ pc = "send"
        /\ calls' = Append(calls, <<CurFile, lang_code>>)
        /\ \A p \in 1..Len(calls) : calls[p] # <<CurFile, lang_code>>
        \* every earlier call has returned and its task is finished
        /\ calls = Attempted
        /\ Len(log) = current_step
        \* what the task before wrote back is saved, when its save succeeded
        /\ (log # <<>> /\ log[Len(log)].file = CurFile
                /\ log[Len(log)].outcome = "translated")
              => outFiles[CurFile] = rows

C13_State ==
    pc # "start" =>
        /\ calls = Attempted \o InFlight
        /\ \A p, q \in 1..Len(calls) : p # q => calls[p] # calls[q]
        /\ \A p \in 1..Len(calls) : \E d \in 1..Len(Discovered) : Discovered[d] = calls[p]
        /\ \A n \in 1..Len(log) :
              log[n].outcome \in {"skipped", "unread"} =>
                  \A p \in 1..Len(calls) : calls[p] # <<log[n].file, log[n].code>>
        /\ \A n \in 1..Len(log) :
              log[n].outcome = "failed" =>
                  Cardinality({ p \in 1..Len(calls) :
                                  calls[p] = <<log[n].file, log[n].code>> }) = 1

\* C13: over a run every task the scan found causes at most one backend call;
\* a call that failed is not made again; a task passed over in resume mode, or of
\* a file that could not be read, causes none; and a call starts only when every
\* earlier task is finished, its writeback saved.
C13_OneShotSequential == [][C13_CallStep]_vars /\ []C13_State

C13_Witness ==
    /\ pc = "done"
    /\ Len(log) = 3
    /\ log[1].outcome = "failed"
    /\ log[2].outcome = "skipped"
    /\ log[3].outcome = "translated"
    /\ calls = << <<log[1].file, log[1].code>>, <<log[3].file, log[3].code>> >>

\* ---------------------------------------------------------------- C14
\* the cells a task of the run before translated (a non-empty text) that were in
\* the output file when that run ended, as <<file, row, column>>, 0-based
PersistedBy(prev, e) ==
    { <<e.file, e.rowIndices[k], e.col>> :
        k \in { j \in 1..Min(Len(e.rowIndices), Len(e.lines)) :
                  LET out == prev.outFiles[e.file]
                      r == e.rowIndices[j] + 1
                  IN  /\ Strip(e.lines[j]) # <<>>
                      /\ Len(out) >= r
                      /\ CellAt(out[r], e.col) = Strip(e.lines[j]) } }

Persisted(prev) ==
    UNION { PersistedBy(prev, prev.log[n]) :
              n \in { j \in 1..Len(prev.log) : prev.log[j].outcome = "translated" } }

\* the output file holds a non-empty text at that cell
HoldsTranslation(files, cell) ==
    /\ Len(files[cell[1]]) >= cell[2] + 1
    /\ Strip(CellAt(files[cell[1]][cell[2] + 1], cell[3])) # <<>>

\* C14 as stated: a translated cell that an earlier run saved still holds a
\* translation in the output file when a later run on the same input, with
\* resume on, has ended, whatever the outcome of that run.
C14_Original ==
    (previous # Null /\ pc = "done") =>
        \A cell \in Persisted(previous[1]) : HoldsTranslation(outFiles, cell)

\* the case of the statement: in the later run the task of the cell's language
\* fails, another language of the file is translated and saved without error,
\* and the cell is back to the empty cell of the input
C14_Reverted ==
    /\ previous # Null
    /\ pc = "done"
    /\ errors = 1
    /\ Len(log) = 2
    /\ log[1].outcome = "failed"
    /\ log[2].outcome = "translated"
    /\ log[2].file = log[1].file
    /\ \E cell \in Persisted(previous[1]) :
          /\ cell[1] = log[1].file
          /\ cell[3] = log[1].col
          /\ ~HoldsTranslation(outFiles, cell)
          /\ CellAt(outFiles[cell[1]][cell[2] + 1], cell[3])
                = CellAt(inputFiles[cell[1]][cell[2] + 1], cell[3])

\* ---------------------------------------------------------------- C15
\* the counters, from the moment lines 440-441 have set them
C15_Counters ==
    pc # "start" =>
        /\ 0 <= errors
        /\ errors <= current_step
        /\ current_step <= total_steps
        /\ current_step = Len(log)
        /\ total_steps = Len(Discovered)
        /\ pc \in {"done", "nothing"} => current_step = total_steps

\* the tasks a step finishes, each with its outcome
C15_Step ==
    pc # "start" =>
        /\ Len(log') >= Len(log)
        /\ SubSeq(log', 1, Len(log)) = log
        /\ current_step' - current_step = Len(log') - Len(log)
        /\ \A n \in (Len(log) + 1)..Len(log') :
              log'[n].outcome \in {"translated", "savefail", "failed", "skipped", "unread"}
        /\ errors' \in {errors, errors + 1}
        /\ errors' > errors => current_step' > current_step
        /\ total_steps' = total_steps

\* C15: in every state of the task loop 0 <= errors <= current_step <=
\* total_steps; every task, whether translated, failed, passed over in resume
\* mode or lost with a file that could not be read, adds exactly one to
\* current_step; and when the loop ends current_step = total_steps.
C15_ProgressAccounting == []C15_Counters /\ [][C15_Step]_vars

C15_Witness ==
    /\ pc = "done"
    /\ total_steps = 3
    /\ current_step = 3
    /\ errors = 2
    /\ log[1].outcome = "unread"
    /\ log[2].outcome = "unread"
    /\ log[3].outcome = "failed"

\* ---------------------------------------------------------------- C16
\* what one writeback may change of a record: the cell at column c, and empty
\* cells appended up to it
FrameOfRow(before, after, c) ==
    /\ Len(after) \in {Len(before), c + 1}
    /\ Len(after) >= Len(before)
    /\ \A k \in 0..(Len(after) - 1) :
          k # c => after[k + 1] = CellAt(before, k)

C16_WritebackStep ==
    /\ rows' # rows =>
          \/ pc = "file" /\ rows' = inputFiles[CurFile]
          \/ /\ pc = "recv"
             /\ Len(rows') = Len(rows)
             /\ rows'[1] = rows[1]
             /\ \A i \in DataRows(rows) : FrameOfRow(rows[i + 1], rows'[i + 1], col_index)
    /\ inputFiles' = inputFiles

\* the columns of the tasks of the current file that have been written back
WrittenColumns ==
    { log[n].col : n \in { j \in 1..Len(log) :
                              /\ log[j].file = CurFile
                              /\ log[j].outcome \in {"translated", "savefail"} } }
    \cup (IF pc \in {"save", "write"} THEN {col_index} ELSE {})

\* `table` is `in` but for the cells of the columns `cols` and for empty cells
\* appended to its records
FrameOfTable(in, table, cols, src) ==
    /\ Len(table) = Len(in)
    /\ table[1] = in[1]
    /\ src \notin cols
    /\ \A i \in DataRows(in) :
          /\ Len(table[i + 1]) >= Len(in[i + 1])
          /\ CellAt(table[i + 1], src) = CellAt(in[i + 1], src)
          /\ \A k \in 0..(Len(table[i + 1]) - 1) :
                k \notin cols => table[i + 1][k + 1] = CellAt(in[i + 1], k)

C16_Frame ==
    /\ pc \in {"task", "send", "recv", "save", "write"} =>
          /\ FrameOfTable(inputFiles[CurFile], rows, WrittenColumns, ru_index)
          /\ ru_index = HeaderIndex(inputFiles[CurFile][1])
          /\ \A n \in 1..Len(CurMeta.targets) : CurMeta.targets[n].col > ru_index
    \* the source lines of a task are those of the input
    /\ pc \in {"send", "recv"} =>
          \A k \in 1..Len(source_subset) :
              source_subset[k] = CellAt(inputFiles[CurFile][indices_to_process[k] + 1],
                                        HeaderIndex(inputFiles[CurFile][1]))
    \* a saved file is within the same frame
    /\ \A n \in 1..Len(log) :
          (log[n].outcome = "translated" /\ Len(outFiles[log[n].file]) = Len(inputFiles[log[n].file]))
              => LET f == log[n].file
                 IN  FrameOfTable(inputFiles[f], outFiles[f],
                                  { log[j].col : j \in { q \in 1..Len(log) :
                                      /\ log[q].file = f
                                      /\ log[q].outcome \in {"translated", "savefail"} } },
                                  HeaderIndex(inputFiles[f][1]))

\* C16: a task for column c assigns only cells at column c of data rows, and
\* appends empty cells up to column c; after any sequence of tasks on a file the
\* header, the number and order of the rows, every source cell and every cell of
\* another language's column that the input had are as in the input, so the
\* source lines of a later language of the file are those of the input.
C16_WritebackFrame == [][C16_WritebackStep]_vars /\ []C16_Frame

C16_Witness ==
    /\ pc = "done"
    /\ Len(log) = 2
    /\ log[1].outcome = "translated"
    /\ log[2].outcome = "translated"
    /\ log[1].col = 3
    /\ log[2].col = 2
    /\ \E i \in DataRows(inputFiles[1]) :
          /\ inputFiles[1][i + 1] = <<A, B, Empty>>
          /\ Len(outFiles[1][i + 1]) = 4
          /\ outFiles[1][i + 1][1] = A
          /\ outFiles[1][i + 1][2] = B
          /\ outFiles[1][i + 1][3] # <<>>
          /\ outFiles[1][i + 1][4] # <<>>
    /\ \E i \in DataRows(inputFiles[1]) :
          /\ inputFiles[1][i + 1] = <<A>>
          /\ Len(outFiles[1][i + 1]) = 4
          /\ outFiles[1][i + 1][2] = <<>>

====
